---- MODULE Spec2Model ----
(***************************************************************************)
(* Model of Search (src/search.go): a range / equality search over one     *)
(* Series, split over nCores goroutines of an errgroup, under the Series'  *)
(* exclusive lock, responsive to the caller's context.                     *)
(*                                                                         *)
(* Rows and partition indices are 0-based as in the Go code; the Series'   *)
(* values are held in the 1-based sequence s, so row r is s[r + 1].        *)
(* A Go *int is modelled as a sequence: <<>> is nil, <<v>> points to v.    *)
(***************************************************************************)
EXTENDS Integers, Sequences, FiniteSets, TLC

\* Bounds of the model.
MaxRows == 2
MaxCores == 2

\* The element values: below, at and above a bound can all be told apart.
Values == {0, 1, 2}

NoErr == "nil"
InvalidRangeError == "InvalidRangeError"
\* The reasons ctx.Err() can report once the context is done.
Reasons == {"Canceled", "DeadlineExceeded"}

\* Holders of the Series' lock.
Free == "free"
Caller == "Search"
Other == "other"

\* Holder of mapProtect when no goroutine holds it.
NoOne == -1

VARIABLES
    s,          \* the Series' values
    lower,      \* argument lower
    upper,      \* argument upper
    r,          \* the variadic argument r ...Range
    nCores,     \* runtime.NumCPU()
    ctxErr,     \* ctx.Err()
    lock,       \* holder of the Series' exclusive lock
    pc,         \* position of Search's own goroutine
    equalCheck, \* local equalCheck
    start,      \* local start
    end,        \* local end
    err,        \* local err
    subRanges,  \* local subRanges, indexed 0..nCores-1
    gpc,        \* position of each errgroup goroutine
    row,        \* each goroutine's loop variable row
    rowsFound,  \* each goroutine's rowsFound
    gret,       \* the error each goroutine returns to the errgroup
    gerr,       \* the errgroup's err (set once, by the first failing goroutine)
    mapProtect, \* holder of the mutex mapProtect
    mapRows,    \* the map mapRows
    rows,       \* the slice Search returns
    fetched,    \* history: the rows passed to s.Value
    lessCalls,  \* history: whether s.IsLessThanFunc was ever called
    writes,     \* history: number of writes of mapRows[i], per i
    pending,    \* history: a goroutine had a ctx.Err() check ahead when ctx was cancelled
    stopAt,     \* history: per goroutine, the first row whose ctx.Err() check it had
                \* not yet passed when ctx was cancelled
    preCancelled \* history: ctx was done before the goroutines were started (as it
                \* is when it is already done at the call)

args == <<s, lower, upper, r, nCores>>
locals == <<equalCheck, start, end, err, subRanges>>
hist == <<fetched, lessCalls, writes, pending, stopAt, preCancelled>>

vars == <<args, ctxErr, lock, pc, locals, gpc, row, rowsFound, gret, gerr,
          mapProtect, mapRows, rows, hist>>

Cores == 0..(nCores - 1)

----------------------------------------------------------------------------
\* The collaborators of Search.

\* s.NRows
NRows == Len(s)

\* s.Value(row), for a row of the Series
Value(rw) == s[rw + 1]

\* s.IsEqualFunc
IsEqualFunc(a, b) == a = b

\* s.IsLessThanFunc
IsLessThanFunc(a, b) == a < b

\* Options{DontLock: true} of s.NRows
NRowsDontLock == TRUE

\* Mutant of ValueDontLock: s.Value is called without DontLock.
ValueTakesLock == FALSE

\* Options{DontLock: true} of s.Value
ValueDontLock == TRUE

\* An accessor of the Series takes the Series' lock itself unless DontLock is
\* set; the lock is not reentrant, so it then waits until the lock is free.
Readable(dontLock) == dontLock \/ lock = Free

\* cmp.Equal(lower, upper, cmpopts.IgnoreUnexported())
DeepEqual(a, b) == a = b

\* Range.Limits(length): the resolved inclusive bounds, or InvalidRangeError.
Limits(rng, length) ==
    LET st == IF rng.Start = <<>> THEN 0 ELSE rng.Start[1]
        en == IF rng.End = <<>> THEN length - 1 ELSE rng.End[1]
    IN  IF st > en \/ st < 0 \/ en < 0 \/ st >= length \/ en >= length
        THEN [start |-> 0, end |-> 0, err |-> InvalidRangeError]
        ELSE [start |-> st, end |-> en, err |-> NoErr]

\* if len(r) == 0 { r = append(r, Range{}) }; r[0]
FirstRange(rs) == IF Len(rs) = 0 THEN [Start |-> <<>>, End |-> <<>>] ELSE rs[1]

----------------------------------------------------------------------------
\* The pure parts of Search.

\* Mutant of SubRange: the last partition ends one row past end.
SubRangePastEnd(i, n, div, en) ==
    IF i # n - 1
    THEN [Start |-> i * div, End |-> (i + 1) * div - 1]
    ELSE [Start |-> i * div, End |-> en + 1]

\* One iteration of the loop that builds subRanges.
SubRange(i, n, div, en) ==
    IF i # n - 1
    THEN [Start |-> i * div, End |-> (i + 1) * div - 1]
    ELSE [Start |-> i * div, End |-> en]

\* subRanges after the loop, for the resolved st, en.
Partition(st, en, n) ==
    LET div == (en - st + 1) \div n
    IN  [i \in 0..(n - 1) |-> SubRange(i, n, div, en)]

\* Mutant of InBounds: equalCheck is ignored, the range test decides every row.
InBoundsIgnoresEqualCheck(eq, val, lo, up) ==
    [found |-> ~IsLessThanFunc(val, lo)
               /\ (IsLessThanFunc(val, up) \/ IsEqualFunc(val, up)),
     less |-> TRUE]

\* The test of one value in the loop of a goroutine: whether the row is found,
\* and whether s.IsLessThanFunc was called to decide it.
InBounds(eq, val, lo, up) ==
    IF eq
    THEN [found |-> IsEqualFunc(val, lo), less |-> FALSE]
    ELSE [found |-> ~IsLessThanFunc(val, lo)
                    /\ (IsLessThanFunc(val, up) \/ IsEqualFunc(val, up)),
          less |-> TRUE]

\* mapRows[i] of Go: the zero value (a nil slice) for a key that is absent.
MapGet(m, i) == IF i \in DOMAIN m THEN m[i] ELSE <<>>

RECURSIVE Concat(_, _, _)
\* rows after appending mapRows[i], mapRows[i+1], ..., mapRows[n-1] in this order.
Concat(m, i, n) == IF i >= n THEN <<>> ELSE MapGet(m, i) \o Concat(m, i + 1, n)

----------------------------------------------------------------------------
Ptrs == {<<>>} \cup {<<v>> : v \in 0..MaxRows}
Ranges == [Start : Ptrs, End : Ptrs]
Columns == UNION {[1..n -> Values] : n \in 0..MaxRows}

Init ==
    /\ s \in Columns
    /\ lower \in Values
    /\ upper \in Values
    /\ r \in {<<>>} \cup {<<rng>> : rng \in Ranges}
    /\ nCores \in 1..MaxCores
    /\ ctxErr = NoErr
    /\ lock = Free
    /\ pc = "call"
    /\ equalCheck = FALSE
    /\ start = 0
    /\ end = 0
    /\ err = NoErr
    /\ subRanges = <<>>
    /\ gpc = [i \in Cores |-> "idle"]
    /\ row = [i \in Cores |-> 0]
    /\ rowsFound = [i \in Cores |-> <<>>]
    /\ gret = [i \in Cores |-> NoErr]
    /\ gerr = NoErr
    /\ mapProtect = NoOne
    /\ mapRows = <<>>
    /\ rows = <<>>
    /\ fetched = {}
    /\ lessCalls = FALSE
    /\ writes = [i \in Cores |-> 0]
    /\ pending = FALSE
    /\ stopAt = [i \in Cores |-> 0]
    /\ preCancelled = FALSE

----------------------------------------------------------------------------
\* Search's own goroutine.

\* s.Lock(); defer s.Unlock()
SearchLock ==
    /\ pc = "call"
    /\ lock = Free
    /\ lock' = Caller
    /\ pc' = "limits"
    /\ UNCHANGED <<args, ctxErr, locals, gpc, row, rowsFound, gret, gerr,
                   mapProtect, mapRows, rows, hist>>

\* Mutant of SearchLimits: the error of Limits is not checked before the
\* goroutines are started.
SearchLimitsNoEarlyReturn ==
    /\ pc = "limits"
    /\ Readable(NRowsDontLock)
    /\ LET lim == Limits(FirstRange(r), NRows)
       IN  /\ equalCheck' = DeepEqual(lower, upper)
           /\ start' = lim.start
           /\ end' = lim.end
           /\ err' = lim.err
           /\ subRanges' = Partition(lim.start, lim.end, nCores)
           /\ gpc' = [i \in Cores |-> "loop"]
           /\ row' = [i \in Cores |-> subRanges'[i].Start]
           /\ pc' = "wait"
           /\ UNCHANGED <<rows, lock>>
    /\ UNCHANGED <<args, ctxErr, rowsFound, gret, gerr, mapProtect, mapRows, hist>>

\* From len(r) == 0 to the end of the loop of g.Go: equalCheck, Limits of
\* s.NRows, the early return on its error (with the deferred s.Unlock()), the
\* partition and the start of the nCores goroutines.
SearchLimits ==
    /\ pc = "limits"
    /\ Readable(NRowsDontLock)
    /\ LET lim == Limits(FirstRange(r), NRows)
       IN  /\ equalCheck' = DeepEqual(lower, upper)
           /\ start' = lim.start
           /\ end' = lim.end
           /\ err' = lim.err
           /\ IF lim.err # NoErr
              THEN /\ rows' = <<>>
                   /\ lock' = Free
                   /\ pc' = "done"
                   /\ UNCHANGED <<subRanges, gpc, row>>
              ELSE /\ subRanges' = Partition(lim.start, lim.end, nCores)
                   /\ gpc' = [i \in Cores |-> "loop"]
                   /\ row' = [i \in Cores |-> subRanges'[i].Start]
                   /\ pc' = "wait"
                   /\ UNCHANGED <<rows, lock>>
    /\ UNCHANGED <<args, ctxErr, rowsFound, gret, gerr, mapProtect, mapRows, hist>>

\* Mutant of WaitOver: the wait ends with the first goroutine that returns.
WaitOverFirst == \E i \in Cores : gpc[i] = "done"

\* g.Wait() returns once every goroutine of the group has returned.
WaitOver == \A i \in Cores : gpc[i] = "done"

\* Mutant of SearchWait: the result of g.Wait() is dropped.
SearchWaitDropsErr ==
    /\ pc = "wait"
    /\ WaitOver
    /\ err' = NoErr
    /\ pc' = "aggregate"
    /\ UNCHANGED <<args, ctxErr, lock, equalCheck, start, end, subRanges, gpc, row,
                   rowsFound, gret, gerr, mapProtect, mapRows, rows, hist>>

\* err = g.Wait()
SearchWait ==
    /\ pc = "wait"
    /\ WaitOver
    /\ err' = gerr
    /\ pc' = "aggregate"
    /\ UNCHANGED <<args, ctxErr, lock, equalCheck, start, end, subRanges, gpc, row,
                   rowsFound, gret, gerr, mapProtect, mapRows, rows, hist>>

RECURSIVE ConcatIn(_, _, _)
\* The slices of m appended in the order p[k], p[k+1], ... of the keys.
ConcatIn(m, p, k) ==
    IF k > Len(p) THEN <<>> ELSE MapGet(m, p[k]) \o ConcatIn(m, p, k + 1)

\* Mutant of SearchAggregate: rows is built by ranging over the map, whose
\* iteration order Go leaves unspecified.
SearchAggregateInMapOrder ==
    /\ pc = "aggregate"
    /\ \E p \in [1..nCores -> Cores] :
           /\ \A i \in Cores : \E k \in 1..nCores : p[k] = i
           /\ rows' = ConcatIn(mapRows, p, 1)
    /\ pc' = "return"
    /\ UNCHANGED <<args, ctxErr, lock, locals, gpc, row, rowsFound, gret, gerr,
                   mapProtect, mapRows, hist>>

\* The two loops over mapRows that build rows.
SearchAggregate ==
    /\ pc = "aggregate"
    /\ rows' = Concat(mapRows, 0, nCores)
    /\ pc' = "return"
    /\ UNCHANGED <<args, ctxErr, lock, locals, gpc, row, rowsFound, gret, gerr,
                   mapProtect, mapRows, hist>>

\* Mutant of SearchReturn: s.Unlock() is not deferred, Search returns with the
\* lock held.
SearchReturnKeepsLock ==
    /\ pc = "return"
    /\ pc' = "done"
    /\ UNCHANGED <<args, ctxErr, lock, locals, gpc, row, rowsFound, gret, gerr,
                   mapProtect, mapRows, rows, hist>>

\* return rows, err, and the deferred s.Unlock()
SearchReturn ==
    /\ pc = "return"
    /\ lock' = Free
    /\ pc' = "done"
    /\ UNCHANGED <<args, ctxErr, locals, gpc, row, rowsFound, gret, gerr,
                   mapProtect, mapRows, rows, hist>>

----------------------------------------------------------------------------
\* The goroutine of partition i.

\* Mutant of ScanLoop: a cancelled goroutine records the row it stopped at.
ScanLoopRecordsStop(i) ==
    /\ gpc[i] = "loop"
    /\ IF row[i] < subRanges[i].End + 1
       THEN IF ctxErr # NoErr
            THEN /\ gret' = [gret EXCEPT ![i] = ctxErr]
                 /\ rowsFound' = [rowsFound EXCEPT ![i] = Append(@, row[i])]
                 /\ gpc' = [gpc EXCEPT ![i] = "defer"]
            ELSE /\ gpc' = [gpc EXCEPT ![i] = "value"]
                 /\ UNCHANGED <<gret, rowsFound>>
       ELSE /\ gpc' = [gpc EXCEPT ![i] = "defer"]
            /\ UNCHANGED <<gret, rowsFound>>
    /\ UNCHANGED <<args, ctxErr, lock, pc, locals, row, gerr,
                   mapProtect, mapRows, rows, hist>>

\* Variants of ScanLoop: ctx.Err() is consulted only when checked holds, and a
\* goroutine that stops on it leaves with kept as its rowsFound.
ScanLoopVariant(i, checked, kept) ==
    /\ gpc[i] = "loop"
    /\ IF row[i] < subRanges[i].End + 1
       THEN IF checked /\ ctxErr # NoErr
            THEN /\ gret' = [gret EXCEPT ![i] = ctxErr]
                 /\ rowsFound' = [rowsFound EXCEPT ![i] = kept]
                 /\ gpc' = [gpc EXCEPT ![i] = "defer"]
            ELSE /\ gpc' = [gpc EXCEPT ![i] = "value"]
                 /\ UNCHANGED <<gret, rowsFound>>
       ELSE /\ gpc' = [gpc EXCEPT ![i] = "defer"]
            /\ UNCHANGED <<gret, rowsFound>>
    /\ UNCHANGED <<args, ctxErr, lock, pc, locals, row, gerr,
                   mapProtect, mapRows, rows, hist>>

\* Mutant of ScanLoop: ctx.Err() is checked once, before the first row only.
ScanLoopChecksFirstRowOnly(i) ==
    ScanLoopVariant(i, row[i] = subRanges[i].Start, rowsFound[i])

\* Mutant of ScanLoop: ctx.Err() is checked after a row, not before the first.
ScanLoopSkipsFirstCheck(i) ==
    ScanLoopVariant(i, row[i] # subRanges[i].Start, rowsFound[i])

\* Mutant of ScanLoop: a goroutine that stops on ctx.Err() drops what it found.
ScanLoopDiscardsOnCancel(i) == ScanLoopVariant(i, TRUE, <<>>)

\* The loop condition and, when it holds, the check of ctx.Err(): the
\* goroutine goes on to the row, or returns (nil or ctx.Err()) and so enters
\* its deferred function.
ScanLoop(i) ==
    /\ gpc[i] = "loop"
    /\ IF row[i] < subRanges[i].End + 1
       THEN IF ctxErr # NoErr
            THEN /\ gret' = [gret EXCEPT ![i] = ctxErr]
                 /\ gpc' = [gpc EXCEPT ![i] = "defer"]
            ELSE /\ gpc' = [gpc EXCEPT ![i] = "value"]
                 /\ UNCHANGED gret
       ELSE /\ gpc' = [gpc EXCEPT ![i] = "defer"]
            /\ UNCHANGED gret
    /\ UNCHANGED <<args, ctxErr, lock, pc, locals, row, rowsFound, gerr,
                   mapProtect, mapRows, rows, hist>>

\* val := s.Value(row, DontLock), the test of val, the append, row++.
\* A row outside the Series makes s.Value panic.
ScanValue(i) ==
    /\ gpc[i] = "value"
    /\ Readable(ValueDontLock)
    /\ fetched' = fetched \cup {row[i]}
    /\ IF row[i] \in 0..(NRows - 1)
       THEN LET t == InBounds(equalCheck, Value(row[i]), lower, upper)
            IN  /\ rowsFound' = [rowsFound EXCEPT ![i] =
                                    IF t.found THEN Append(@, row[i]) ELSE @]
                /\ lessCalls' = (lessCalls \/ t.less)
                /\ row' = [row EXCEPT ![i] = @ + 1]
                /\ gpc' = [gpc EXCEPT ![i] = "loop"]
       ELSE /\ gpc' = [gpc EXCEPT ![i] = "panic"]
            /\ UNCHANGED <<rowsFound, lessCalls, row>>
    /\ UNCHANGED <<args, ctxErr, lock, pc, locals, gret, gerr, mapProtect, mapRows,
                   rows, writes, pending, stopAt, preCancelled>>

\* Mutant of ScanDeferLock: mapRows is written without waiting for mapProtect.
ScanDeferLockNoWait(i) ==
    /\ gpc[i] = "defer"
    /\ mapProtect' = i
    /\ gpc' = [gpc EXCEPT ![i] = "write"]
    /\ UNCHANGED <<args, ctxErr, lock, pc, locals, row, rowsFound, gret, gerr,
                   mapRows, rows, hist>>

\* The deferred function: mapProtect.Lock()
ScanDeferLock(i) ==
    /\ gpc[i] = "defer"
    /\ mapProtect = NoOne
    /\ mapProtect' = i
    /\ gpc' = [gpc EXCEPT ![i] = "write"]
    /\ UNCHANGED <<args, ctxErr, lock, pc, locals, row, rowsFound, gret, gerr,
                   mapRows, rows, hist>>

\* Mutant of ScanDeferWrite: results are keyed by order of completion, not by
\* partition index.
ScanDeferWriteByCompletion(i) ==
    /\ gpc[i] = "write"
    /\ LET k0 == Cardinality(DOMAIN mapRows)
       IN  mapRows' = [k \in DOMAIN mapRows \cup {k0} |->
                          IF k = k0 THEN rowsFound[i] ELSE mapRows[k]]
    /\ writes' = [writes EXCEPT ![i] = @ + 1]
    /\ gpc' = [gpc EXCEPT ![i] = "unlock"]
    /\ UNCHANGED <<args, ctxErr, lock, pc, locals, row, rowsFound, gret, gerr,
                   mapProtect, rows, fetched, lessCalls, pending, stopAt, preCancelled>>

\* The deferred function: mapRows[i] = rowsFound
ScanDeferWrite(i) ==
    /\ gpc[i] = "write"
    /\ mapRows' = [k \in DOMAIN mapRows \cup {i} |->
                      IF k = i THEN rowsFound[i] ELSE mapRows[k]]
    /\ writes' = [writes EXCEPT ![i] = @ + 1]
    /\ gpc' = [gpc EXCEPT ![i] = "unlock"]
    /\ UNCHANGED <<args, ctxErr, lock, pc, locals, row, rowsFound, gret, gerr,
                   mapProtect, rows, fetched, lessCalls, pending, stopAt, preCancelled>>

\* Mutant of ScanDeferUnlock: the first error stops the sibling goroutines.
ScanDeferUnlockStopsSiblings(i) ==
    /\ gpc[i] = "unlock"
    /\ mapProtect' = NoOne
    /\ gerr' = IF gret[i] # NoErr /\ gerr = NoErr THEN gret[i] ELSE gerr
    /\ gpc' = [j \in Cores |->
                  IF j = i THEN "done"
                  ELSE IF gret[i] # NoErr /\ gpc[j] \in {"loop", "value"} THEN "defer"
                  ELSE gpc[j]]
    /\ UNCHANGED <<args, ctxErr, lock, pc, locals, row, rowsFound, gret,
                   mapRows, rows, hist>>

\* The deferred function: mapProtect.Unlock(); the goroutine then hands its
\* error to the errgroup, which keeps the first non-nil one, and is done.
ScanDeferUnlock(i) ==
    /\ gpc[i] = "unlock"
    /\ mapProtect' = NoOne
    /\ gerr' = IF gret[i] # NoErr /\ gerr = NoErr THEN gret[i] ELSE gerr
    /\ gpc' = [gpc EXCEPT ![i] = "done"]
    /\ UNCHANGED <<args, ctxErr, lock, pc, locals, row, rowsFound, gret,
                   mapRows, rows, hist>>

----------------------------------------------------------------------------
\* The environment of the call.

\* Goroutine i will evaluate ctx.Err() again.
CheckAhead(i) ==
    \/ gpc[i] = "loop" /\ row[i] < subRanges[i].End + 1
    \/ gpc[i] = "value" /\ row[i] + 1 < subRanges[i].End + 1

\* The caller cancels ctx (or its deadline passes).
Cancel ==
    /\ ctxErr = NoErr
    /\ pc # "done"
    /\ ctxErr' \in Reasons
    /\ pending' = (pc = "wait" /\ \E i \in Cores : CheckAhead(i))
    /\ stopAt' = [i \in Cores |-> IF gpc[i] = "value" THEN row[i] + 1 ELSE row[i]]
    /\ preCancelled' = (pc \in {"call", "limits"})
    /\ UNCHANGED <<args, lock, pc, locals, gpc, row, rowsFound, gret, gerr,
                   mapProtect, mapRows, rows, fetched, lessCalls, writes>>

\* Another call on the same Series takes its lock: s.Lock()
OtherLock ==
    /\ lock = Free
    /\ lock' = Other
    /\ UNCHANGED <<args, ctxErr, pc, locals, gpc, row, rowsFound, gret, gerr,
                   mapProtect, mapRows, rows, hist>>

\* and releases it: s.Unlock()
OtherUnlock ==
    /\ lock = Other
    /\ lock' = Free
    /\ UNCHANGED <<args, ctxErr, pc, locals, gpc, row, rowsFound, gret, gerr,
                   mapProtect, mapRows, rows, hist>>

\* Any step of goroutine i.
ScanStep(i) ==
    \/ ScanLoop(i)
    \/ ScanValue(i)
    \/ ScanDeferLock(i)
    \/ ScanDeferWrite(i)
    \/ ScanDeferUnlock(i)

Next ==
    \/ SearchLock
    \/ SearchLimits
    \/ SearchWait
    \/ SearchAggregate
    \/ SearchReturn
    \/ \E i \in Cores : ScanLoop(i)
    \/ \E i \in Cores : ScanValue(i)
    \/ \E i \in Cores : ScanDeferLock(i)
    \/ \E i \in Cores : ScanDeferWrite(i)
    \/ \E i \in Cores : ScanDeferUnlock(i)
    \/ Cancel
    \/ OtherLock
    \/ OtherUnlock

Spec == Init /\ [][Next]_vars

\* The steps of Search's own goroutine once it holds the lock.
SearchStep == SearchLimits \/ SearchWait \/ SearchAggregate \/ SearchReturn

\* A step of goroutine i, for i up to the largest nCores of the model.
ScanStepOf(i) == i \in Cores /\ ScanStep(i)

\* Spec under the scheduling the Go runtime gives: every goroutine that can
\* run does run; a holder of the Series' lock releases it, and a goroutine
\* waiting in s.Lock() is not starved (sync's starvation mode).  Nothing is
\* assumed about the caller's cancellation.
LiveSpec ==
    /\ Spec
    /\ WF_vars(OtherUnlock)
    /\ SF_vars(SearchLock)
    /\ WF_vars(SearchStep)
    /\ \A i \in 0..(MaxCores - 1) : WF_vars(ScanStepOf(i))

----------------------------------------------------------------------------
\* Vocabulary of the properties.

\* The rows lo, lo+1, ..., hi in ascending order (none when hi < lo).
RowsOf(lo, hi) == [k \in 1..(hi - lo + 1) |-> lo + k - 1]

\* Search has returned.
Returned == pc = "done"

\* Search has returned and the bounds resolver had accepted the range.
ReturnedFromScan == Returned /\ err # InvalidRangeError

\* ctx was never cancelled during the call (Cancel only acts before the return).
Uncancelled == ctxErr = NoErr

\* One sequential scan of rows start..end with the inclusive range predicate.
SequentialScan ==
    SelectSeq(RowsOf(start, end),
              LAMBDA rw : ~(Value(rw) < lower)
                          /\ (Value(rw) < upper \/ Value(rw) = upper))

\* The rows of the whole Series whose value equals lower.
EqualRows == SelectSeq(RowsOf(0, NRows - 1), LAMBDA rw : Value(rw) = lower)

StrictlyAscending(q) == \A k \in 1..(Len(q) - 1) : q[k] < q[k + 1]

RECURSIVE IsSubseq(_, _)
\* a is b with some elements left out, the others in b's order.
IsSubseq(a, b) ==
    IF a = <<>> THEN TRUE
    ELSE IF b = <<>> THEN FALSE
    ELSE IF Head(a) = Head(b) THEN IsSubseq(Tail(a), Tail(b))
    ELSE IsSubseq(a, Tail(b))

\* What goroutine i finds when it runs its loop to the end.
FullScan(i) ==
    SelectSeq(RowsOf(subRanges[i].Start, subRanges[i].End),
              LAMBDA rw : InBounds(equalCheck, Value(rw), lower, upper).found)

\* What Search returns for these arguments when ctx is never cancelled.
UncancelledRows == Concat([i \in Cores |-> FullScan(i)], 0, nCores)

\* The rows of partition i.
SubRows(i) == {rw \in 0..MaxRows : subRanges[i].Start <= rw /\ rw <= subRanges[i].End}

----------------------------------------------------------------------------
\* C1: for a range lower <= upper that is not deep-equal, an uncancelled Search
\* over any valid resolved range [start, end] returns exactly the ascending rows
\* that one sequential scan of start..end finds with the predicate
\* NOT(value < lower) AND (value < upper OR value == upper).
C1_MatchesSequentialScan ==
    (ReturnedFromScan /\ Uncancelled /\ lower <= upper /\ ~DeepEqual(lower, upper))
        => rows = SequentialScan

\* C2: the nCores partitions are pairwise disjoint and their union is exactly
\* start..end: partition i < N-1 is [start + i*chunk, start + (i+1)*chunk - 1]
\* and partition N-1 is [start + (N-1)*chunk, end].
C2_PartitionsCoverRange ==
    pc \in {"wait", "aggregate", "return"} =>
        LET chunk == (end - start + 1) \div nCores
        IN  /\ \A i \in Cores :
                 /\ subRanges[i].Start = start + i * chunk
                 /\ subRanges[i].End =
                        IF i = nCores - 1 THEN end ELSE start + (i + 1) * chunk - 1
            /\ \A i, j \in Cores : i # j => SubRows(i) \cap SubRows(j) = {}
            /\ UNION {SubRows(i) : i \in Cores} = start..end

\* C3: every row Search returns, cancelled or not, lies in the resolved range
\* [start, end].
C3_RowsWithinRange ==
    ReturnedFromScan => \A k \in 1..Len(rows) : start <= rows[k] /\ rows[k] <= end

\* C4: when lower and upper are deep-equal, an uncancelled Search over the whole
\* Series returns exactly the rows whose value IsEqualFunc finds equal to lower,
\* and IsLessThanFunc is never called.
C4_EqualityMode ==
    (ReturnedFromScan /\ Uncancelled /\ DeepEqual(lower, upper)
        /\ start = 0 /\ end = NRows - 1)
        => (rows = EqualRows /\ ~lessCalls)

\* An equality search of a two-row Series, split over two goroutines, that
\* finds one row and rejects the other.
C4_Witness ==
    /\ ReturnedFromScan /\ Uncancelled /\ DeepEqual(lower, upper)
    /\ start = 0 /\ end = NRows - 1
    /\ NRows = 2 /\ nCores = 2 /\ Len(rows) = 1

\* C5: the returned rows are strictly ascending (so without duplicates), for
\* every interleaving of the goroutines and every moment of cancellation.
C5_StrictlyAscending == StrictlyAscending(rows)

\* A cancelled call returns rows that two different goroutines found.
C5_Witness ==
    /\ Returned /\ ctxErr # NoErr /\ nCores = 2
    /\ MapGet(mapRows, 0) # <<>> /\ MapGet(mapRows, 1) # <<>>
    /\ Len(rows) >= 2

\* C6: whenever ctx is cancelled, the returned rows are a subsequence of what
\* the uncancelled Search returns for the same arguments (and an uncancelled
\* Search returns exactly that).
C6_CancelledIsSubsequence ==
    ReturnedFromScan =>
        /\ IsSubseq(rows, UncancelledRows)
        /\ Uncancelled => rows = UncancelledRows

\* A cancelled call that misses a row of the first partition and returns a
\* row of the second.
C6_Witness ==
    /\ ReturnedFromScan /\ err \in Reasons
    /\ rows # <<>> /\ UncancelledRows # <<>>
    /\ rows[1] > UncancelledRows[1]

\* C7: when ctx is cancelled while some goroutine still has a ctx.Err() check
\* ahead, Search returns ctx's reason, an error some goroutine returned, together
\* with the rows found; when no goroutine returned an error, Search returns nil.
C7_CancelError ==
    ReturnedFromScan =>
        /\ pending => /\ err \in Reasons
                      /\ err = ctxErr
                      /\ \E i \in Cores : gret[i] = err
                      /\ rows = Concat(rowsFound, 0, nCores)
        /\ (\A i \in Cores : gret[i] = NoErr) => err = NoErr

\* Cancelled after one goroutine had found a row and before another had
\* finished: the error comes back with that row.
C7_Witness ==
    /\ ReturnedFromScan /\ pending /\ err \in Reasons
    /\ rows # <<>> /\ Len(rows) < Len(UncancelledRows)

\* C8: when the bounds resolver fails, Search returns its error and no rows, no
\* goroutine is started and no value is fetched.
C8_ResolverFailure ==
    (pc \notin {"call", "limits"} /\ Limits(FirstRange(r), NRows).err # NoErr) =>
        /\ Returned
        /\ err = Limits(FirstRange(r), NRows).err
        /\ rows = <<>>
        /\ \A i \in Cores : gpc[i] = "idle"
        /\ mapRows = <<>>
        /\ fetched = {}
        /\ lock # Caller

\* A request with Start > End on a Series that has both rows.
C8_Witness ==
    /\ Returned /\ err = InvalidRangeError
    /\ Len(r) = 1 /\ r[1].Start # <<>> /\ r[1].End # <<>>
    /\ r[1].End[1] < r[1].Start[1] /\ r[1].Start[1] < NRows

\* C9: when Search starts to read mapRows, every goroutine has returned and
\* every partition index holds the result its goroutine committed, whether the
\* goroutine ran to the end or stopped on cancellation.
C9_AggregateAfterAll ==
    pc = "aggregate" =>
        /\ mapProtect = NoOne
        /\ \A i \in Cores : /\ gpc[i] = "done"
                            /\ i \in DOMAIN mapRows
                            /\ mapRows[i] = rowsFound[i]

\* Aggregation is about to start after one goroutine stopped on cancellation
\* and another ran to the end of a partition with a row.
C9_Witness ==
    /\ pc = "aggregate" /\ nCores = 2
    /\ \E i, j \in Cores : /\ gret[i] # NoErr
                           /\ gret[j] = NoErr
                           /\ rowsFound[j] # <<>>

\* C10: Search holds the Series' lock from before s.NRows until after the
\* aggregation, so no other call holds it meanwhile; the accessors are called
\* with DontLock, so neither Search nor a goroutine ever waits for that lock.
C10_LockHeldNoDeadlock ==
    /\ pc \in {"limits", "wait", "aggregate", "return"} => lock = Caller
    /\ lock = Other => pc \in {"call", "done"}
    /\ pc = "limits" => ENABLED SearchLimits
    /\ (pc = "wait" /\ ~WaitOver) => \E i \in Cores : ENABLED ScanStep(i)

\* Two goroutines are about to read values while Search holds the lock.
C10_Witness ==
    /\ pc = "wait" /\ lock = Caller /\ nCores = 2
    /\ \A i \in Cores : gpc[i] = "value"

----------------------------------------------------------------------------
\* What the arguments alone determine as the result of an uncancelled call
\* whose range the resolver accepts.
DeterminedRows ==
    LET lim == Limits(FirstRange(r), NRows)
        sub == Partition(lim.start, lim.end, nCores)
        eq == DeepEqual(lower, upper)
    IN  Concat([i \in Cores |->
                   SelectSeq(RowsOf(sub[i].Start, sub[i].End),
                             LAMBDA rw : InBounds(eq, Value(rw), lower, upper).found)],
               0, nCores)

\* C11: Search never modifies the Series (nor its other arguments), and what an
\* uncancelled Search returns is determined by its arguments alone, whatever the
\* interleaving of the goroutines: two such calls return the same rows in the
\* same order.
C11_DeterministicNoSideEffect ==
    /\ [][s' = s /\ lower' = lower /\ upper' = upper /\ r' = r]_vars
    /\ []((ReturnedFromScan /\ Uncancelled) => (rows = DeterminedRows /\ err = NoErr))
    /\ []((Returned /\ Uncancelled /\ err # NoErr) =>
             (rows = <<>> /\ err = Limits(FirstRange(r), NRows).err))

\* An uncancelled call returns rows found by two different goroutines.
C11_Witness ==
    /\ ReturnedFromScan /\ Uncancelled /\ nCores = 2
    /\ rowsFound[0] # <<>> /\ rowsFound[1] # <<>>
    /\ rows = rowsFound[0] \o rowsFound[1]

\* Goroutine i has left its loop before the end of its partition.
StoppedEarly(i) ==
    /\ gpc[i] \in {"defer", "write", "unlock", "done"}
    /\ row[i] < subRanges[i].End + 1

\* C12: only the caller activates ctx: a step that changes ctx.Err() is no step
\* of Search or of a goroutine; a step in which a goroutine returns an error or
\* hands it to the errgroup leaves ctx and every sibling goroutine unchanged; a
\* goroutine leaves its loop early only with the ctx.Err() it observed itself.
C12_CancellationOnlyFromCaller ==
    /\ [][ctxErr' # ctxErr =>
            /\ ctxErr = NoErr
            /\ UNCHANGED <<args, lock, pc, locals, gpc, row, rowsFound, gret, gerr,
                           mapProtect, mapRows, rows>>]_vars
    /\ [][\A i \in Cores :
            (gret'[i] # gret[i] \/ (gpc[i] = "unlock" /\ gpc'[i] = "done")) =>
                /\ ctxErr' = ctxErr
                /\ \A j \in Cores \ {i} :
                      /\ gpc'[j] = gpc[j]
                      /\ row'[j] = row[j]
                      /\ rowsFound'[j] = rowsFound[j]
                      /\ gret'[j] = gret[j]]_vars
    /\ [](\A i \in Cores : StoppedEarly(i) => (gret[i] \in Reasons /\ gret[i] = ctxErr))
    /\ [](\A i \in Cores : gret[i] # NoErr => StoppedEarly(i))

\* One goroutine has returned ctx.Err() to the errgroup while its sibling is
\* still about to read a value.
C12_Witness ==
    /\ pc = "wait" /\ nCores = 2
    /\ \E i, j \in Cores : /\ gpc[i] = "done" /\ gret[i] # NoErr
                           /\ gpc[j] = "value"

\* C13 (as amended): cancellation is cooperative with a bounded response: once
\* ctx is done, a goroutine reads no row whose ctx.Err() check it had not already
\* passed (at most the one row in flight), and when it then leaves its loop
\* before the end of its partition it does so with ctx's reason; when ctx was
\* done before the goroutines started, no row is read.
C13_BoundedResponse ==
    ctxErr # NoErr =>
        /\ preCancelled => fetched = {}
        /\ ~preCancelled =>
              \A i \in Cores : /\ row[i] <= stopAt[i]
                               /\ gpc[i] \in {"value", "panic"} => row[i] < stopAt[i]
        /\ \A i \in Cores : StoppedEarly(i) => gret[i] = ctxErr

\* ctx is done while a goroutine is between its check and s.Value: this row is
\* still read, and its partition has a further row that must not be.
C13_Witness ==
    /\ ctxErr # NoErr /\ ~preCancelled
    /\ \E i \in Cores : /\ gpc[i] = "value"
                        /\ row[i] + 1 = stopAt[i]
                        /\ row[i] < subRanges[i].End

\* C13 (as stated): the bounded response above, and a goroutine that has a row
\* in flight once ctx is done reads it and then stops with ctx's reason.
C13_StopsWithReason ==
    /\ []C13_BoundedResponse
    /\ \A i \in 0..(MaxCores - 1) :
          (i \in Cores /\ ctxErr # NoErr /\ gpc[i] = "value")
              ~> (i \in Cores /\ gpc[i] = "done" /\ gret[i] = ctxErr)

\* The rows goroutine i has tested so far that pass the test, in ascending order.
TestedFound(i) ==
    SelectSeq(RowsOf(subRanges[i].Start, row[i] - 1),
              LAMBDA rw : InBounds(equalCheck, Value(rw), lower, upper).found)

\* C14: what a goroutine commits, also when it stops on cancellation, is exactly
\* the rows passing the test among the ascending prefix of its partition that it
\* tested, and Search returns these slots concatenated in partition order.
C14_PartialCommitted ==
    /\ \A i \in DOMAIN mapRows : mapRows[i] = TestedFound(i)
    /\ ReturnedFromScan =>
          /\ DOMAIN mapRows = Cores
          /\ rows = Concat([i \in Cores |-> TestedFound(i)], 0, nCores)

\* A goroutine that stopped on cancellation before the end of its partition had
\* found a row, and Search returned it.
C14_Witness ==
    /\ ReturnedFromScan
    /\ \E i \in Cores : /\ gret[i] # NoErr
                        /\ StoppedEarly(i)
                        /\ MapGet(mapRows, i) # <<>>
                        /\ rows # <<>>

\* The goroutines inside the section that mapProtect guards.
InSection == {i \in Cores : gpc[i] \in {"write", "unlock"}}

\* C15: mapRows[i] is written exactly once for each partition index, every write
\* is made by the holder of mapProtect, no two goroutines are in the guarded
\* section together, and Search reads mapRows only after all the writes.
C15_MapWrittenOnceUnderMutex ==
    /\ \A i \in Cores : /\ writes[i] <= 1
                        /\ writes[i] = 1 <=> gpc[i] \in {"unlock", "done"}
                        /\ i \in InSection => mapProtect = i
    /\ DOMAIN mapRows = {i \in Cores : writes[i] = 1}
    /\ Cardinality(InSection) <= 1
    /\ pc \in {"aggregate", "return"} \/ ReturnedFromScan =>
          /\ InSection = {}
          /\ mapProtect = NoOne
          /\ \A i \in Cores : writes[i] = 1

\* One goroutine is about to write mapRows while its sibling waits for
\* mapProtect.
C15_Witness ==
    /\ nCores = 2
    /\ \E i, j \in Cores : /\ gpc[i] = "write" /\ mapProtect = i
                           /\ gpc[j] = "defer"

\* C16: when ctx is done before the goroutines start, as it is when it is
\* already done at the call, and the resolver accepts the range, no value is
\* fetched, no row is returned and the error is ctx's reason.
C16_CancelledBeforeStart ==
    preCancelled =>
        /\ fetched = {}
        /\ ReturnedFromScan => (rows = <<>> /\ err \in Reasons /\ err = ctxErr)

\* A call with ctx done from the start returns with nothing although there
\* were rows to find in both partitions.
C16_Witness ==
    /\ ReturnedFromScan /\ preCancelled /\ nCores = 2
    /\ Len(UncancelledRows) = 2

\* C17: every row passed to s.Value is a row of the Series, for every valid
\* resolved range and every nCores.
C17_ReadsWithinSeries ==
    /\ fetched \subseteq 0..(NRows - 1)
    /\ \A i \in Cores : /\ gpc[i] # "panic"
                        /\ gpc[i] = "value" => row[i] \in 0..(NRows - 1)

\* More goroutines than rows in a range with start > 0: the last row of the
\* Series has been read.
C17_Witness ==
    /\ ReturnedFromScan /\ start > 0
    /\ (end - start + 1) \div nCores = 0
    /\ NRows - 1 \in fetched

\* C18: under fair scheduling every call of Search returns, whether ctx is never
\* cancelled, cancelled at any moment, or the resolver rejects the range, and
\* when it has returned it no longer holds the Series' lock.
C18_ReturnsAndUnlocks ==
    /\ <>Returned
    /\ [](Returned => lock # Caller)
    /\ [][Returned => Returned']_vars

\* A cancelled call has returned its error and the lock is free.
C18_Witness ==
    /\ Returned /\ err \in Reasons /\ lock = Free /\ nCores = 2

====
